---------------------------- MODULE Spec2Model ----------------------------
(***************************************************************************)
(* A model of src/js/excel-parser.js: the ExcelParser class that turns the *)
(* decoded rows of a spreadsheet (58 columns, one Gate per data row) into  *)
(* Gate records and answers queries over the records it holds.            *)
(*                                                                         *)
(* JavaScript values are tagged records [t, s, n]: t is the type tag,      *)
(* s the characters of a string (a tuple of one-character strings) and n   *)
(* the value of a number.  A row is a tuple of cell values; the cell at    *)
(* JavaScript index c is row[c + 1].                                       *)
(***************************************************************************)
EXTENDS Integers, Sequences, FiniteSets

VARIABLES
    rawData,    \* this.rawData: [null, rows]
    gates,      \* this.gates: the records held
    isLoaded,   \* this.isLoaded
    ret         \* the last call on the instance and what it returned or threw

vars == <<rawData, gates, isLoaded, ret>>

(***************************************************************************)
(* JavaScript values                                                       *)
(***************************************************************************)
Null == [t |-> "null", s |-> <<>>, n |-> 0]

Undefined == [t |-> "undefined", s |-> <<>>, n |-> 0]

NaN == [t |-> "NaN", s |-> <<>>, n |-> 0]

Str(chars) == [t |-> "string", s |-> chars, n |-> 0]

Num(k) == [t |-> "number", s |-> <<>>, n |-> k]

\* ToBoolean: null, undefined, "", 0 and NaN are falsy.
Truthy(v) ==
    \/ v.t = "string" /\ v.s # <<>>
    \/ v.t = "number" /\ v.n # 0

\* a || b
Or(a, b) == IF Truthy(a) THEN a ELSE b

\* row[colIndex]: undefined past the end of the array.
RowAt(row, colIndex) ==
    IF colIndex + 1 <= Len(row) THEN row[colIndex + 1] ELSE Undefined

(***************************************************************************)
(* getCellValue(row, colIndex)                                             *)
(***************************************************************************)
getCellValue(row, colIndex) ==
    LET value == RowAt(row, colIndex)
    IN  IF value = Null \/ value = Undefined \/ value = Str(<<>>)
        THEN Null
        ELSE IF value = Str(<<"B">>) THEN Str(<<"B">>)
        ELSE value

(***************************************************************************)
(* String.prototype.replace(pattern, "") with a string pattern: the first  *)
(* occurrence of the character is removed.                                 *)
(***************************************************************************)
ReplaceFirst(chars, c) ==
    IF \E i \in 1..Len(chars) : chars[i] = c
    THEN LET i == CHOOSE j \in 1..Len(chars) :
                      /\ chars[j] = c
                      /\ \A h \in 1..(j - 1) : chars[h] # c
         IN  SubSeq(chars, 1, i - 1) \o SubSeq(chars, i + 1, Len(chars))
    ELSE chars

(***************************************************************************)
(* parseInt(string) with no radix.                                         *)
(***************************************************************************)
DigitChars == <<"0", "1", "2", "3", "4", "5", "6", "7", "8", "9">>

HexLower == <<"a", "b", "c", "d", "e", "f">>

HexUpper == <<"A", "B", "C", "D", "E", "F">>

\* The value of a character as a digit; 36, a digit of no radix, when it is none.
DigitValue(c) ==
    IF \E i \in 1..10 : DigitChars[i] = c
    THEN (CHOOSE i \in 1..10 : DigitChars[i] = c) - 1
    ELSE IF \E i \in 1..6 : HexLower[i] = c
    THEN (CHOOSE i \in 1..6 : HexLower[i] = c) + 9
    ELSE IF \E i \in 1..6 : HexUpper[i] = c
    THEN (CHOOSE i \in 1..6 : HexUpper[i] = c) + 9
    ELSE 36

WhiteSpace == {" "}

RECURSIVE TrimStart(_)
TrimStart(chars) ==
    IF chars # <<>> /\ chars[1] \in WhiteSpace
    THEN TrimStart(Tail(chars))
    ELSE chars

\* The longest prefix of chars made of digits of the radix.
RECURSIVE DigitPrefix(_, _)
DigitPrefix(chars, radix) ==
    IF chars # <<>> /\ DigitValue(chars[1]) < radix
    THEN <<chars[1]>> \o DigitPrefix(Tail(chars), radix)
    ELSE <<>>

RECURSIVE DigitsValue(_, _)
DigitsValue(chars, radix) ==
    IF chars = <<>>
    THEN 0
    ELSE DigitsValue(SubSeq(chars, 1, Len(chars) - 1), radix) * radix
             + DigitValue(chars[Len(chars)])

parseInt(chars) ==
    LET S0     == TrimStart(chars)
        sign   == IF S0 # <<>> /\ S0[1] = "-" THEN -1 ELSE 1
        S1     == IF S0 # <<>> /\ S0[1] \in {"+", "-"} THEN Tail(S0) ELSE S0
        hex    == Len(S1) >= 2 /\ S1[1] = "0" /\ S1[2] \in {"x", "X"}
        R      == IF hex THEN 16 ELSE 10
        S2     == IF hex THEN SubSeq(S1, 3, Len(S1)) ELSE S1
        Z      == DigitPrefix(S2, R)
    IN  IF Z = <<>> THEN NaN ELSE Num(sign * DigitsValue(Z, R))

\* Math.ceil(gateNumber / 20); -0 is the number 0.
MathCeilDiv(v, d) ==
    IF v.t = "NaN" THEN NaN ELSE Num(-((-(v.n)) \div d))

(***************************************************************************)
(* parseGateRow(row, index)                                                *)
(***************************************************************************)
FirstJointCol == 17

PlantCol == 37

FirstSkirtCol == 38

EndSkirtCol == 58

GatesPerMod == 20

\* A faulty variant of StatusSlot: the "|| 'B'" default left out.
StatusSlotNoDefault(row, i) == getCellValue(row, i)

\* getCellValue(row, i) || 'B'
StatusSlot(row, i) == Or(getCellValue(row, i), Str(<<"B">>))

\* for (let i = from; i < to; i++) statuses.push(getCellValue(row, i) || 'B')
StatusSlots(row, from, to) ==
    [k \in 1..(to - from) |-> StatusSlot(row, from + k - 1)]

Reverse(seq) == [k \in 1..Len(seq) |-> seq[Len(seq) + 1 - k]]

\* A faulty variant of ReverseJoints: the array reversed before slot 0 is cut off.
ReverseJointsBeforeSlice(jointStatuses) ==
    <<Null>> \o SubSeq(Reverse(jointStatuses), 2, Len(jointStatuses))

\* joints = jointStatuses.slice(1); joints.reverse(); [null, ...joints]
ReverseJoints(jointStatuses) ==
    <<Null>> \o Reverse(SubSeq(jointStatuses, 2, Len(jointStatuses)))

\* mcn_no?.replace('G', '') throws a TypeError when mcn_no is neither
\* nullish nor a string: a number has no replace method.
ReplaceThrows(mcn_no) == mcn_no.t \notin {"null", "undefined", "string"}

\* parseInt(mcn_no?.replace('G', '') || '0')
GateNumber(mcn_no) ==
    LET replaced == IF mcn_no.t = "string"
                    THEN Str(ReplaceFirst(mcn_no.s, "G"))
                    ELSE Undefined
    IN  parseInt(Or(replaced, Str(<<"0">>)).s)

parseGateRow(row, index) ==
    LET mcn_no    == getCellValue(row, 0)
        rev_flag  == Or(getCellValue(row, 2), Num(0))
        joints0   == StatusSlots(row, FirstJointCol, PlantCol)
        skirts    == StatusSlots(row, FirstSkirtCol, EndSkirtCol)
        gateNumber == GateNumber(mcn_no)
    IN  IF ReplaceThrows(mcn_no)
        THEN [threw |-> TRUE, gate |-> Null]
        ELSE [threw |-> FALSE,
              gate  |->
                [mcn_no        |-> mcn_no,
                 serial_no2    |-> getCellValue(row, 1),
                 rev_flag      |-> rev_flag,
                 wo_dtl_id     |-> getCellValue(row, 3),
                 fo_desc       |-> getCellValue(row, 4),
                 sts           |-> getCellValue(row, 5),
                 working_rate  |-> getCellValue(row, 6),
                 start_dt      |-> getCellValue(row, 7),
                 end_dt        |-> getCellValue(row, 8),
                 plan_start_dt |-> getCellValue(row, 9),
                 plan_end_dt   |-> getCellValue(row, 10),
                 work_st       |-> getCellValue(row, 11),
                 worker_id     |-> getCellValue(row, 12),
                 worker_nm     |-> getCellValue(row, 13),
                 skirt_qty     |-> Or(getCellValue(row, 14), Num(0)),
                 proj_color    |-> getCellValue(row, 15),
                 cur_time      |-> getCellValue(row, 16),
                 plant         |-> getCellValue(row, PlantCol),
                 mod           |-> MathCeilDiv(gateNumber, GatesPerMod),
                 gateNumber    |-> gateNumber,
                 jointStatuses |-> IF rev_flag = Num(1)
                                   THEN ReverseJoints(joints0)
                                   ELSE joints0,
                 skirtStatuses |-> skirts,
                 rowIndex      |-> index,
                 isReverse     |-> (rev_flag = Num(1))]]

(***************************************************************************)
(* parseGates(): map each data row through parseGateRow, a row that throws *)
(* becoming null, then filter the nulls out.                               *)
(***************************************************************************)
NotThrown(r) == ~r.threw

\* A faulty variant of parseGates: the index counted from the header row.
parseGatesIndexFromHeader(rows) ==
    LET mapped == [i \in 2..Len(rows) |-> parseGateRow(rows[i], i - 1)]
        kept   == SelectSeq([i \in 1..(Len(rows) - 1) |-> mapped[i + 1]], NotThrown)
    IN  [i \in 1..Len(kept) |-> kept[i].gate]

\* A faulty variant of parseGates: no try/catch around a row, a throwing row ending
\* the build with no record.
parseGatesNoCatch(rows) ==
    LET dataRows == SubSeq(rows, 2, Len(rows))
        mapped   == [i \in 1..Len(dataRows) |-> parseGateRow(dataRows[i], i - 1)]
    IN  IF \E i \in 1..Len(dataRows) : mapped[i].threw
        THEN <<>>
        ELSE [i \in 1..Len(dataRows) |-> mapped[i].gate]

parseGates(rows) ==
    LET dataRows == SubSeq(rows, 2, Len(rows))
        mapped   == [i \in 1..Len(dataRows) |-> parseGateRow(dataRows[i], i - 1)]
        kept     == SelectSeq(mapped, NotThrown)
    IN  [i \in 1..Len(kept) |-> kept[i].gate]

(***************************************************************************)
(* validateData(): throws when rawData is null or has no row at all.       *)
(***************************************************************************)
\* A faulty variant of validateDataThrows: a sheet of a header row alone is empty too.
validateDataThrowsHeaderOnly(data) == data.null \/ Len(data.rows) <= 1

validateDataThrows(data) == data.null \/ Len(data.rows) = 0

(***************************************************************************)
(* Property keys and the summary                                           *)
(***************************************************************************)
\* ToString of an integer: its decimal digits.
RECURSIVE NatToString(_)
NatToString(k) ==
    IF k < 10
    THEN <<DigitChars[k + 1]>>
    ELSE NatToString(k \div 10) \o <<DigitChars[(k % 10) + 1]>>

\* The property key a value is converted to when it indexes an object.
PropertyKey(v) ==
    IF v.t = "string" THEN v.s
    ELSE IF v.n < 0 THEN <<"-">> \o NatToString(-(v.n))
    ELSE NatToString(v.n)

Unknown == Str(<<"U", "n", "k", "n", "o", "w", "n">>)

\* const status = gate.sts || 'Unknown', as the key of statusCount
StatusKey(gate) == PropertyKey(Or(gate.sts, Unknown))

\* A faulty variant of StatusCount: a record without a status is not counted.
StatusCountSkipsMissing(gs) ==
    [key \in {PropertyKey(gs[i].sts) : i \in {j \in 1..Len(gs) : Truthy(gs[j].sts)}} |->
        Cardinality({i \in 1..Len(gs) : Truthy(gs[i].sts) /\ PropertyKey(gs[i].sts) = key})]

\* summary.statusCount after the forEach: every key met, with the number of
\* records that gave it.
StatusCount(gs) ==
    [key \in {StatusKey(gs[i]) : i \in 1..Len(gs)} |->
        Cardinality({i \in 1..Len(gs) : StatusKey(gs[i]) = key})]

\* a === b: NaN equals nothing, itself included.
StrictEquals(a, b) == a.t # "NaN" /\ a = b

\* this.gates.filter(gate => gate.mod === mod)
HasMod(gs, mod) == SelectSeq(gs, LAMBDA gate : StrictEquals(gate.mod, mod))

\* filterByMod(mod): every record when mod is falsy.
filterByMod(gs, mod) ==
    IF ~Truthy(mod) THEN gs ELSE HasMod(gs, mod)

IsReverse(gate) == gate.isReverse

\* getSummary(): an error object before isLoaded is set.
getSummary(gs, loaded) ==
    IF ~loaded
    THEN [error |-> "NotLoaded"]
    ELSE [totalGates   |-> Len(gs),
          mod1         |-> Len(filterByMod(gs, Num(1))),
          mod2         |-> Len(filterByMod(gs, Num(2))),
          mod3         |-> Len(filterByMod(gs, Num(3))),
          statusCount  |-> StatusCount(gs),
          reverseCount |-> Len(SelectSeq(gs, IsReverse))]

\* getGateByNumber(mcn_no): the first record with that mcn_no, or null (<<>>).
getGateByNumber(gs, mcn_no) ==
    LET found == SelectSeq(gs, LAMBDA gate : StrictEquals(gate.mcn_no, mcn_no))
    IN  IF found = <<>> THEN <<>> ELSE <<found[1]>>

(***************************************************************************)
(* The sheets a file decodes to (XLSX.utils.sheet_to_json with header: 1   *)
(* and defval: null): a header row and data rows of cells that are null,   *)
(* strings or numbers.  A row may be shorter or longer than 58 cells.      *)
(***************************************************************************)
\* The cells laid over the status columns, shifted from row to row.
Palette ==
    <<Str(<<"S">>), Null, Str(<<>>), Str(<<"B">>), Num(0), Num(3), Str(<<"R">>)>>

Shifts == 0..(Len(Palette) - 1)

StatusCols == (FirstJointCol..(PlantCol - 1)) \cup (FirstSkirtCol..(EndSkirtCol - 1))

\* The cell of column c in a row made from the given gate id, rev flag and
\* status cells.
CellOf(c, gid, rev, sts, shift) ==
    IF c = 0 THEN gid
    ELSE IF c = 1 THEN Str(<<"S", "1">>)
    ELSE IF c = 2 THEN rev
    ELSE IF c = 5 THEN sts
    ELSE IF c = 6 THEN Num(50)
    ELSE IF c = 14 THEN (IF shift % 2 = 0 THEN Num(4) ELSE Null)
    ELSE IF c = PlantCol THEN Str(<<"P">>)
    ELSE IF c \in StatusCols THEN Palette[((c + shift) % Len(Palette)) + 1]
    ELSE IF c >= EndSkirtCol THEN Str(<<"Z">>)
    ELSE Null

MkRow(gid, rev, sts, len, shift) ==
    [i \in 1..len |-> CellOf(i - 1, gid, rev, sts, shift)]

Header == [i \in 1..EndSkirtCol |-> Str(<<"h">>)]

\* Sequences of at most n elements of S.
SeqUpTo(S, n) == UNION {[1..k -> S] : k \in 0..n}

MaxRows == 2

\* The data rows of the sheets loaded one after another.
SheetRows ==
    { MkRow(Str(<<"G", "0", "1">>), Num(0), Str(<<"S">>), 58, 0),
      MkRow(Str(<<"G", "2", "1">>), Num(1), Str(<<"R">>), 60, 3),
      MkRow(Num(5), Null, Str(<<"S">>), 58, 1),
      MkRow(Null, Str(<<"1">>), Null, 30, 5) }

\* An empty sheet decodes to no row at all.
Sheets == {<<>>} \cup {<<Header>> \o rows : rows \in SeqUpTo(SheetRows, MaxRows)}

ModArgs == {Undefined, Num(0), Num(1), Num(2), Num(3)}

GateIdArgs == {Str(<<"G", "0", "1">>), Str(<<"G", "0", "5">>)}

(***************************************************************************)
(* The instance after construction, and its operations.                    *)
(***************************************************************************)
NoCall == [op |-> "none", arg |-> Undefined, err |-> "", val |-> <<>>]

Init ==
    /\ rawData = [null |-> TRUE, rows |-> <<>>]
    /\ gates = <<>>
    /\ isLoaded = FALSE
    /\ ret = NoCall

\* loadExcel(file) when reading the file or XLSX.read fails: the error is
\* rethrown before any field is assigned.
loadExcelUnreadable ==
    /\ ret' = [op |-> "loadExcel", arg |-> Undefined,
               err |-> "ReadError", val |-> <<>>]
    /\ UNCHANGED <<rawData, gates, isLoaded>>

\* loadExcel(file) when the file decodes to the given sheet.
loadExcel(sheet) ==
    LET data == [null |-> FALSE, rows |-> sheet]
    IN  /\ rawData' = data
        /\ IF validateDataThrows(data)
           THEN /\ ret' = [op |-> "loadExcel", arg |-> Undefined,
                           err |-> "DataEmpty", val |-> <<>>]
                /\ UNCHANGED <<gates, isLoaded>>
           ELSE /\ gates' = parseGates(data.rows)
                /\ isLoaded' = TRUE
                /\ ret' = [op |-> "loadExcel", arg |-> Undefined,
                           err |-> "", val |-> gates']

CallGetGateByNumber(mcn_no) ==
    /\ ret' = [op |-> "getGateByNumber", arg |-> mcn_no, err |-> "",
               val |-> getGateByNumber(gates, mcn_no)]
    /\ UNCHANGED <<rawData, gates, isLoaded>>

CallFilterByMod(mod) ==
    /\ ret' = [op |-> "filterByMod", arg |-> mod, err |-> "",
               val |-> filterByMod(gates, mod)]
    /\ UNCHANGED <<rawData, gates, isLoaded>>

CallGetSummary ==
    /\ ret' = [op |-> "getSummary", arg |-> Undefined, err |-> "",
               val |-> getSummary(gates, isLoaded)]
    /\ UNCHANGED <<rawData, gates, isLoaded>>

Next ==
    \/ \E sheet \in Sheets : loadExcel(sheet)
    \/ loadExcelUnreadable
    \/ \E mcn_no \in GateIdArgs : CallGetGateByNumber(mcn_no)
    \/ \E mod \in ModArgs : CallFilterByMod(mod)
    \/ CallGetSummary

Spec == Init /\ [][Next]_vars

(***************************************************************************)
(* parseGateRow over single rows: every sheet loaded has one data row,     *)
(* drawn from rows that vary the gate id cell, and rows that vary the rev  *)
(* flag cell, the length of the row and the cells of the status columns.   *)
(***************************************************************************)
GateIdCells ==
    { Null, Str(<<>>), Num(0), Num(5),
      Str(<<"G", "0", "1">>), Str(<<"G", "0", "5">>), Str(<<"G", "2", "0">>),
      Str(<<"G", "2", "1">>), Str(<<"G", "4", "0">>), Str(<<"G", "4", "1">>),
      Str(<<"G", "6", "0">>), Str(<<"G">>), Str(<<"G", "X", "X">>),
      Str(<<"G", "1", "2", "A">>), Str(<<"G", " ", "7">>),
      Str(<<"G", "-", "2", "5">>), Str(<<"G", "0", "x", "1", "F">>),
      Str(<<"X", "G", "3">>), Str(<<"g", "0", "1">>), Str(<<"6", "0">>) }

RevCells == {Null, Num(0), Num(1), Str(<<"1">>)}

RowLens == {0, 3, 17, 18, 30, 37, 45, 57, 58, 60}

GateRows ==
    {MkRow(gid, Num(0), Str(<<"S">>), 58, 0) : gid \in GateIdCells}
      \cup {MkRow(gid, Num(1), Null, 20, 2) : gid \in GateIdCells}
      \cup {MkRow(Str(<<"G", "0", "1">>), rev, Str(<<"H">>), len, shift) :
                rev \in RevCells, len \in RowLens, shift \in Shifts}

RowNext == \E row \in GateRows : loadExcel(<<Header, row>>)

RowSpec == Init /\ [][RowNext]_vars

(***************************************************************************)
(* Properties of the records of a build.  After a loadExcel that returned, *)
(* rawData holds the sheet the records held were built from.               *)
(***************************************************************************)
Built == ret.op = "loadExcel" /\ ret.err = ""

\* The data row a record held after a build was made from.
RowOf(gate) == rawData.rows[gate.rowIndex + 2]

Blank == Str(<<"B">>)

\* A status slot as described: "B" for an absent, null or empty cell, the
\* cell's value for every other cell.
SlotOfCell(cell) ==
    IF cell = Undefined \/ cell = Null \/ cell = Str(<<>>) THEN Blank ELSE cell

\* C2: in every produced record skirtStatuses is the 20 cells from offset
\* 38 and, when revFlag is not 1, jointStatuses is the 20 cells from offset
\* 17, a slot holding "B" for an absent, null or empty cell and the cell's
\* value unchanged for every other string or number.
C2_SlotsAreSourceCells ==
    Built =>
        \A i \in 1..Len(gates) :
            LET gate == gates[i]
                row  == RowOf(gate)
            IN  /\ Len(gate.skirtStatuses) = 20
                /\ \A k \in 0..19 :
                       gate.skirtStatuses[k + 1] = SlotOfCell(RowAt(row, 38 + k))
                /\ gate.rev_flag # Num(1) =>
                       /\ Len(gate.jointStatuses) = 20
                       /\ \A k \in 0..19 :
                              gate.jointStatuses[k + 1] = SlotOfCell(RowAt(row, 17 + k))

\* C3: a row whose revFlag cell is 1 gives isReverse = true and 20 joint
\* slots, slot 0 null and slot k (1..19) the substituted source slot 20 - k,
\* with skirtStatuses in source order; any other row gives isReverse = false
\* and jointStatuses in source order.
C3_ReverseRule ==
    Built =>
        \A i \in 1..Len(gates) :
            LET gate == gates[i]
                row  == RowOf(gate)
            IN  /\ Len(gate.jointStatuses) = 20
                /\ \A k \in 0..19 : gate.skirtStatuses[k + 1] = StatusSlot(row, 38 + k)
                /\ IF RowAt(row, 2) = Num(1)
                   THEN /\ gate.isReverse
                        /\ gate.jointStatuses[1] = Null
                        /\ \A k \in 1..19 :
                               gate.jointStatuses[k + 1] = StatusSlot(row, 17 + (20 - k))
                   ELSE /\ ~gate.isReverse
                        /\ \A k \in 0..19 :
                               gate.jointStatuses[k + 1] = StatusSlot(row, 17 + k)

\* C3 witness: a record built from a row whose revFlag cell is 1 and whose
\* joint cells differ from one another, so that the order shows.
C3_Reversed ==
    /\ Built
    /\ \E i \in 1..Len(gates) :
           /\ RowAt(RowOf(gates[i]), 2) = Num(1)
           /\ Len(RowOf(gates[i])) >= 58
           /\ gates[i].jointStatuses[2] # gates[i].jointStatuses[20]
           /\ gates[i].jointStatuses[2] = RowAt(RowOf(gates[i]), 36)

\* C4 as stated: no slot of jointStatuses and no slot of skirtStatuses of a
\* produced record is null.
C4_NoNullSlot ==
    \A i \in 1..Len(gates) :
        \A k \in 1..20 :
            /\ gates[i].jointStatuses[k] # Null
            /\ gates[i].skirtStatuses[k] # Null

\* C4 amended: no slot of skirtStatuses is null, and no slot of
\* jointStatuses is null except slot 0 of a reversed record (revFlag 1),
\* which is always null; every other slot holds "B" or the value of a cell of
\* the record's row in that collection's columns.
C4_NullOnlyInReversedSlot0 ==
    Built =>
        \A i \in 1..Len(gates) :
            LET gate == gates[i]
                row  == RowOf(gate)
            IN  /\ Len(gate.jointStatuses) = 20 /\ Len(gate.skirtStatuses) = 20
                /\ (gate.jointStatuses[1] = Null) <=> gate.isReverse
                /\ gate.isReverse <=> (gate.rev_flag = Num(1))
                /\ \A k \in 1..20 :
                       /\ gate.skirtStatuses[k] # Null
                       /\ \/ gate.skirtStatuses[k] = Blank
                          \/ \E c \in 38..57 : gate.skirtStatuses[k] = RowAt(row, c)
                /\ \A k \in 2..20 : gate.jointStatuses[k] # Null
                /\ \A k \in 1..20 :
                       \/ gate.jointStatuses[k] = Blank
                       \/ k = 1 /\ gate.isReverse
                       \/ \E c \in 17..36 : gate.jointStatuses[k] = RowAt(row, c)

\* C4 witness: a reversed record, slot 0 null, built from a row with a null
\* joint cell and a null skirt cell, both held as "B".
C4_ReversedWithBlanks ==
    /\ Built
    /\ \E i \in 1..Len(gates) :
           /\ gates[i].isReverse
           /\ gates[i].jointStatuses[1] = Null
           /\ \E k \in 1..19 :
                  /\ RowAt(RowOf(gates[i]), 17 + k) = Null
                  /\ gates[i].jointStatuses[20 - k + 1] = Blank
           /\ \E k \in 0..19 :
                  /\ RowAt(RowOf(gates[i]), 38 + k) = Null
                  /\ gates[i].skirtStatuses[k + 1] = Blank

\* C5: groupIndex (mod) of every produced record is a non-negative integer,
\* ceil(n / 20) for n the integer parsed from gateId without its "G", and
\* n = 0 when gateId is missing or cannot be parsed.
C5_GroupIndex ==
    \A i \in 1..Len(gates) :
        LET parsed == GateNumber(gates[i].mcn_no)
            n      == IF parsed.t = "number" THEN parsed.n ELSE 0
        IN  /\ gates[i].mod.t = "number"
            /\ gates[i].mod.n >= 0
            /\ gates[i].mod.n * 20 >= n
            /\ (gates[i].mod.n - 1) * 20 < n

(***************************************************************************)
(* Properties of builds and queries on one instance.                       *)
(***************************************************************************)
\* The data rows of the sheet held.
DataRows == SubSeq(rawData.rows, 2, Len(rawData.rows))

Throws(row, index) == parseGateRow(row, index).threw

\* The records held are records of rows of the sheet held, in row order:
\* each is what its row parses to, and rowIndex grows along the sequence.
OrderedRecordsOfRows ==
    /\ Len(gates) <= Len(DataRows)
    /\ \A i \in 1..Len(gates) :
           /\ gates[i].rowIndex \in 0..(Len(DataRows) - 1)
           /\ ~Throws(DataRows[gates[i].rowIndex + 1], gates[i].rowIndex)
           /\ gates[i] = parseGateRow(DataRows[gates[i].rowIndex + 1],
                                      gates[i].rowIndex).gate
           /\ gates[i].mcn_no = getCellValue(DataRows[gates[i].rowIndex + 1], 0)
    /\ \A i, j \in 1..Len(gates) : i < j => gates[i].rowIndex < gates[j].rowIndex

\* C1: a sheet none of whose data rows throws gives one record per data
\* row, in row order, the record at position i having rowIndex i (from 0);
\* in general the records are an order-preserving subsequence of the rows.
C1_OneRecordPerValidRow ==
    Built =>
        /\ OrderedRecordsOfRows
        /\ ret.val = gates
        /\ (\A r \in 1..Len(DataRows) : ~Throws(DataRows[r], r - 1)) =>
               /\ Len(gates) = Len(DataRows)
               /\ \A i \in 1..Len(gates) : gates[i].rowIndex = i - 1

\* C1 witness: a build from two data rows, neither throwing, the second
\* record with rowIndex 1.
C1_TwoValidRows ==
    /\ Built
    /\ Len(DataRows) = 2
    /\ \A r \in 1..2 : ~Throws(DataRows[r], r - 1)
    /\ Len(gates) = 2
    /\ gates[2].rowIndex = 1
    /\ gates[1].mcn_no # gates[2].mcn_no

\* C6 as stated: a load of a sheet with only a header row fails with
\* DataEmpty.
C6_HeaderOnlyFails ==
    (ret.op = "loadExcel" /\ ret.err # "ReadError" /\ Len(rawData.rows) = 1)
        => ret.err = "DataEmpty"

\* C6 amended: a load of a sheet with no row at all, not even a header,
\* fails with DataEmpty, producing no record set and leaving isLoaded and
\* the records held as they were; a load of a sheet with only a header row
\* succeeds with an empty record set and isLoaded = true.
C6_OnlyRowlessSheetFails ==
    [][(ret'.op = "loadExcel" /\ ret'.err # "ReadError") =>
          /\ ret'.err = "DataEmpty" <=> Len(rawData'.rows) = 0
          /\ Len(rawData'.rows) = 0 =>
                 /\ ret'.val = <<>>
                 /\ gates' = gates
                 /\ isLoaded' = isLoaded
          /\ Len(rawData'.rows) = 1 =>
                 /\ ret'.err = ""
                 /\ isLoaded'
                 /\ gates' = <<>>
                 /\ ret'.val = <<>>]_vars

\* C6 witness: a sheet with only a header row has been loaded, with success.
C6_HeaderOnlyLoaded ==
    /\ Built
    /\ Len(rawData.rows) = 1
    /\ isLoaded
    /\ gates = <<>>

\* A row is malformed, as C7 has it, when parsing it throws or when it is
\* shorter than the 58 columns.
Malformed(row, index) == Throws(row, index) \/ Len(row) < 58

\* C7 as stated: a sheet with exactly one malformed data row, a row shorter
\* than 58 columns included, gives dataRows - 1 records, none of them for
\* the malformed row.
C7_MalformedRowDropped ==
    (Built /\ Cardinality({r \in 1..Len(DataRows) : Malformed(DataRows[r], r - 1)}) = 1)
        => /\ Len(gates) = Len(DataRows) - 1
           /\ \A i \in 1..Len(gates) :
                  ~Malformed(DataRows[gates[i].rowIndex + 1], gates[i].rowIndex)

\* C7 amended: a sheet with exactly one data row on which parseGateRow
\* throws gives dataRows - 1 records: the build returns, that row has no
\* record, and every other row has its record, in row order and with its own
\* rowIndex; a row that is only shorter than 58 columns does not throw and
\* has its record, the absent cells defaulted.
C7_ThrowingRowDropped ==
    Built =>
        /\ (Cardinality({r \in 1..Len(DataRows) : Throws(DataRows[r], r - 1)}) = 1) =>
               /\ Len(gates) = Len(DataRows) - 1
               /\ OrderedRecordsOfRows
               /\ \A r \in 1..Len(DataRows) :
                      ~Throws(DataRows[r], r - 1) =>
                          \E i \in 1..Len(gates) : gates[i].rowIndex = r - 1
        /\ \A r \in 1..Len(DataRows) :
               (Len(DataRows[r]) < 58 /\ RowAt(DataRows[r], 0).t # "number") =>
                   \E i \in 1..Len(gates) :
                       /\ gates[i].rowIndex = r - 1
                       /\ Len(gates[i].skirtStatuses) = 20
                       /\ \A k \in (Len(DataRows[r]) - 38 + 1)..20 :
                              k >= 1 => gates[i].skirtStatuses[k] = Blank

\* C7 witness: a build from two data rows, the first of which throws; the one
\* record is the second row's, with rowIndex 1.
C7_FirstRowThrows ==
    /\ Built
    /\ Len(DataRows) = 2
    /\ Throws(DataRows[1], 0)
    /\ ~Throws(DataRows[2], 1)
    /\ Len(gates) = 1
    /\ gates[1].rowIndex = 1

RECURSIVE SumOver(_, _)
SumOver(f, keys) ==
    IF keys = {}
    THEN 0
    ELSE LET key == CHOOSE k \in keys : TRUE
         IN  f[key] + SumOver(f, keys \ {key})

MissingStatus(gate) == gate.sts = Null \/ gate.sts = Num(0)

\* C8: getSummary yields the NotLoaded outcome whenever no build has yet
\* succeeded (isLoaded starts false, is set by every successful load and by
\* nothing else, and is never cleared); once one has, it yields a report
\* whose total is the number of records held and whose per-status counts,
\* "Unknown" counting the records without a status (a null status, or the
\* number 0), sum to that total.
C8_Summary ==
    /\ ~isLoaded
    /\ [][/\ isLoaded' # isLoaded => (isLoaded' /\ ret'.op = "loadExcel" /\ ret'.err = "")
          /\ (ret'.op = "loadExcel" /\ ret'.err = "") => isLoaded']_vars
    /\ [](ret.op = "getSummary" =>
            IF ~isLoaded
            THEN ret.val = [error |-> "NotLoaded"]
            ELSE /\ DOMAIN ret.val =
                       {"totalGates", "mod1", "mod2", "mod3", "statusCount", "reverseCount"}
                 /\ ret.val.totalGates = Len(gates)
                 /\ SumOver(ret.val.statusCount, DOMAIN ret.val.statusCount) = Len(gates)
                 /\ LET missing == {i \in 1..Len(gates) : MissingStatus(gates[i])}
                    IN  IF missing = {}
                        THEN Unknown.s \notin DOMAIN ret.val.statusCount
                        ELSE /\ Unknown.s \in DOMAIN ret.val.statusCount
                             /\ ret.val.statusCount[Unknown.s] = Cardinality(missing))

\* C8 witness: a summary of two records held, one of them without a status.
C8_SummaryOfLoaded ==
    /\ ret.op = "getSummary"
    /\ isLoaded
    /\ Len(gates) = 2
    /\ "totalGates" \in DOMAIN ret.val
    /\ ret.val.totalGates = 2
    /\ Cardinality(DOMAIN ret.val.statusCount) = 2
    /\ Unknown.s \in DOMAIN ret.val.statusCount

\* C9: filterByMod(g) for every g that is supplied, 0 included, returns
\* the records held whose groupIndex is g, in the order held; only without
\* a g does it return every record.
C9_FilterBySuppliedGroup ==
    ret.op = "filterByMod" =>
        IF ret.arg = Undefined
        THEN ret.val = gates
        ELSE ret.val = SelectSeq(gates, LAMBDA gate : gate.mod = ret.arg)

\* C10: whenever isLoaded is true, the records held are what the data rows
\* of the raw table held parse to.
C10_GatesMatchRawData ==
    isLoaded => gates = parseGates(rawData.rows)

=============================================================================
